---- MODULE Spec2Model ----
(***************************************************************************)
(* Fork-join parallel toolkit of detail/parallel-inl.h: parallelFor,       *)
(* parallelFill, parallelRangeFor, parallelReduce and parallelSort with    *)
(* its recursive parallelMergeSort and merge.                              *)
(*                                                                         *)
(* One call of one entry point is modelled per behaviour: Init draws the   *)
(* entry point (op) and its arguments, the actions are the steps of that   *)
(* call.  Arrays are functions over 0 .. n-1, as in the source.            *)
(***************************************************************************)
EXTENDS Integers, Sequences, FiniteSets, TLC

VARIABLES
    op,          \* entry point being executed
    policy,      \* ExecutionPolicy argument
    hint,        \* value returned by maxNumberOfThreads()
    pc,          \* position of the entry point
    start,       \* start / begin argument
    end,         \* end argument
    pf,          \* activation of the per-index parallelFor (loop state)
    count,       \* parallelFor: number of invocations of func per index
    out,         \* parallelFor: array written by func, out[i] = i*i
    a,           \* array behind the iterators (parallelFill, parallelSort)
    a0,          \* contents of a when the call was made
    written,     \* offsets of a that have been assigned
    fillValue,   \* parallelFill: value argument
    numThreads,  \* resolved worker count
    slice,       \* slice size of the partitioner
    i1,          \* partitioner: begin of the next range
    i2,          \* partitioner: end of the next range
    tid,         \* loop counter i (parallelRangeFor) / tid (parallelReduce)
    pool,        \* std::vector<std::future<void>> pool
    calls,       \* ranges <<k1, k2>> the callable has been invoked with
    results,     \* parallelReduce: results vector
    finalResult, \* parallelReduce: accumulator of the gather loop
    gi,          \* parallelReduce: position of the gather loop in results
    identity,    \* parallelReduce: identity argument
    reduceFn,    \* parallelReduce: reduce argument
    mapFn,       \* parallelReduce: func argument
    ret,         \* parallelReduce: returned value
    temp,        \* parallelSort: scratch vector
    cmp,         \* parallelSort: compareFunction argument
    sortImpl,    \* which order std::sort gives to equivalent elements
    stack,       \* parallelSort: activations of parallelMergeSort
    reordered,   \* an OpenMP loop ran an iteration before a smaller one
    sortLog      \* parallelSort: activations begun, std::sort calls made,
                 \* and the offsets of a and temp each activation touched

vars == <<op, policy, hint, pc, start, end, pf, count, out, a, a0, written,
          fillValue, numThreads, slice, i1, i2, tid, pool, calls, results,
          finalResult, gi, identity, reduceFn, mapFn, ret, temp, cmp,
          sortImpl, stack, reordered, sortLog>>

forVars == <<count, out>>
memVars == <<a, written>>
rangeVars == <<numThreads, slice, i1, i2, tid, pool, calls, results,
               finalResult, gi, ret>>
argVars == <<op, policy, hint, start, end, a0, fillValue, identity, reduceFn,
             mapFn, cmp, sortImpl>>

----------------------------------------------------------------------------
(* Bounds of the model *)

\* largest index drawn for start and end
MaxIdx == 5
\* largest value drawn for maxNumberOfThreads()
MaxHint == 4
\* longest array drawn for parallelSort and parallelFill
MaxLen == 3

(* Program constants *)

\* worker count used when maxNumberOfThreads() returns 0
kFallbackThreads == 8

Policies == {"kSerial", "kParallel"}
Hints == 0 .. MaxHint

Min(x, y) == IF x < y THEN x ELSE y
Max(x, y) == IF x > y THEN x ELSE y

\* an array (function over 0 .. n-1) from a sequence
ArrayOf(s) == [i \in 0 .. (Len(s) - 1) |-> s[i + 1]]
ArrLen(arr) == Cardinality(DOMAIN arr)
EmptyArr == ArrayOf(<<>>)

----------------------------------------------------------------------------
(* Worker count: numThreadsHint == 0u ? 8u : numThreadsHint, 1 when serial *)

\* worker count that does not look at the policy
ResolveNumThreadsIgnorePolicy(pol, h) ==
    IF h = 0 THEN kFallbackThreads ELSE h

ResolveNumThreads(pol, h) ==
    IF pol = "kParallel"
    THEN (IF h = 0 THEN kFallbackThreads ELSE h)
    ELSE 1

----------------------------------------------------------------------------
(* Per-index parallelFor(start, end, func, policy)                         *)

PfIdle == [mode |-> "idle", i |-> 0, end |-> 0, pending |-> {}]

\* iteration space handed to the OpenMP loop, one end too far
ParallelForCallInclusive(s, e, pol) ==
    IF s > e THEN PfIdle
    ELSE IF pol = "kParallel"
         THEN [mode |-> "omp", i |-> s, end |-> e + 1, pending |-> s .. e]
         ELSE [mode |-> "serial", i |-> s, end |-> e + 1, pending |-> {}]

\* The activation a call creates: none when start > end; under kParallel
\* the iterations start .. end-1 are shared out among the OpenMP threads
\* (pending), under kSerial the loop variable i runs from start.
ParallelForCall(s, e, pol) ==
    IF s > e THEN PfIdle
    ELSE IF pol = "kParallel"
         THEN [mode |-> "omp", i |-> s, end |-> e, pending |-> s .. (e - 1)]
         ELSE [mode |-> "serial", i |-> s, end |-> e, pending |-> {}]

PfFinished(p) ==
    \/ p.mode = "serial" /\ ~(p.i < p.end)
    \/ p.mode = "omp" /\ p.pending = {}

\* func of the caller of parallelFor(start, end, func, policy):
\* records the invocation and writes out[i] = i*i
UserFunc(i) ==
    /\ count' = IF i \in DOMAIN count
                THEN [count EXCEPT ![i] = @ + 1]
                ELSE (i :> 1) @@ count
    /\ out' = (i :> i * i) @@ out
    /\ UNCHANGED <<memVars, sortLog>>

\* fill lambda that indexes the array instead of begin
FillFuncAbsolute(i) ==
    /\ a' = [a EXCEPT ![i] = fillValue]
    /\ written' = written \cup {i}
    /\ UNCHANGED <<forVars, sortLog>>

\* the lambda of parallelFill: begin[i] = value
FillFunc(i) ==
    /\ a' = [a EXCEPT ![start + i] = fillValue]
    /\ written' = written \cup {start + i}
    /\ UNCHANGED <<forVars, sortLog>>

----------------------------------------------------------------------------
(* Task scheduling abstraction: schedule(fcn) runs fcn() in the caller,    *)
(* so the packaged task has been run when async returns its future.        *)

\* async that hands back a future without shared state and never
\* schedules the packaged task
asyncUnscheduled(job) == [valid |-> FALSE, state |-> "new", job |-> job]

\* The future async(fcn) returns: it refers to the packaged task (valid)
\* and schedule has invoked the task ("run").
async(job) == [valid |-> TRUE, state |-> "run", job |-> job]

\* the packaged task has returned: its future is ready
Completed(f) == IF f.state = "run" THEN [f EXCEPT !.state = "done"] ELSE f

\* for (auto& f : pool) { if (f.valid()) { f.wait(); } } can finish
Waited(p) == \A k \in 1 .. Len(p) : p[k].valid => p[k].state = "done"

----------------------------------------------------------------------------
(* Index partitioner shared by parallelRangeFor and parallelReduce         *)

\* quotient truncated as by an integer division instead of rounded
RoundDivFloor(n, nt) == n \div nt

\* std::round(n / static_cast<double>(numThreads)) for n >= 0:
\* halfway cases are rounded away from zero
RoundDiv(n, nt) == (2 * n + nt) \div (2 * nt)

\* slice = round(n / numThreads) without the clamp to at least 1
SliceSizeNoClamp(n, nt) == RoundDiv(n, nt)

\* slice = max(round(n / numThreads), 1)
SliceSize(n, nt) == Max(RoundDiv(n, nt), 1)

\* i2 = std::min(i2 + slice, end) without the clamp to end
NextEndUnclamped(x, sl, e) == x + sl

\* std::min(start + slice, end) and std::min(i2 + slice, end)
NextEnd(x, sl, e) == Min(x + sl, e)

----------------------------------------------------------------------------
(* Callables of parallelReduce                                             *)

ReduceFns == {"add", "max", "sub"}
MapFns == {"fold", "len"}

\* reduce(val, acc)
Reduce(fn, val, acc) ==
    CASE fn = "add" -> val + acc
      [] fn = "max" -> Max(val, acc)
      [] fn = "sub" -> val - acc

\* Sequential fold of the indices k1 .. k2-1 into seed, in ascending
\* order: acc = reduce(i, acc) for i = k1, k1+1, ...  The fold of a range
\* is the fold of its second half seeded with the value of the fold of its
\* first half, which keeps the evaluation shallow for long ranges.
RECURSIVE FoldRange(_, _, _, _)
FoldRange(fn, k1, k2, seed) ==
    IF k2 <= k1 THEN seed
    ELSE IF k2 = k1 + 1 THEN Reduce(fn, k1, seed)
    ELSE LET mid == k1 + (k2 - k1) \div 2
             first == FoldRange(fn, k1, mid, seed)
         IN  IF first \in Int THEN FoldRange(fn, mid, k2, first) ELSE first

\* func(k1, k2, identity): "fold" folds its own slice starting from the
\* seed it is given, "len" ignores the seed and returns the slice length
Map(m, fn, k1, k2, seed) ==
    CASE m = "fold" -> FoldRange(fn, k1, k2, seed)
      [] m = "len" -> k2 - k1

----------------------------------------------------------------------------
(* Elements and comparators of parallelSort                                *)

\* An element is 10 * key + tag: the comparators look at the key only, so
\* two elements with one key and two tags are equivalent but distinguishable.
Key(x) == x \div 10

CompareFns == {"less", "greater"}

\* compareFunction(x, y)
Compare(c, x, y) ==
    CASE c = "less" -> Key(x) < Key(y)
      [] c = "greater" -> Key(x) > Key(y)

\* std::sort leaves the relative order of equivalent elements unspecified;
\* a build fixes it.  "forward" keeps them in their input order, "backward"
\* reverses them.
SortImpls == {"forward", "backward"}

\* x goes before y when x is inserted into a sorted run that holds y
GoesBefore(c, impl, x, y) ==
    IF impl = "forward" THEN Compare(c, x, y) ELSE ~Compare(c, y, x)

\* the sorted sequence s with x inserted
RECURSIVE InsertSorted(_, _, _, _)
InsertSorted(c, impl, x, s) ==
    IF s = <<>> THEN <<x>>
    ELSE IF GoesBefore(c, impl, x, Head(s)) THEN <<x>> \o s
    ELSE <<Head(s)>> \o InsertSorted(c, impl, x, Tail(s))

RECURSIVE SortedSeq(_, _, _)
SortedSeq(c, impl, s) ==
    IF s = <<>> THEN <<>>
    ELSE InsertSorted(c, impl, s[Len(s)],
                      SortedSeq(c, impl, SubSeq(s, 1, Len(s) - 1)))

\* the elements arr[off] .. arr[off + size - 1] as a sequence
Slice(arr, off, size) == [k \in 1 .. size |-> arr[off + k - 1]]

\* std::sort(a, a + size, compareFunction) on the array at offset off
StdSort(arr, off, size, c, impl) ==
    LET s == SortedSeq(c, impl, Slice(arr, off, size))
    IN  [k \in DOMAIN arr |->
            IF off <= k /\ k < off + size THEN s[k - off + 1] ELSE arr[k]]

----------------------------------------------------------------------------
(* merge(a, size, temp, compareFunction); the iterators a and temp are     *)
(* the offsets ao and to into the array and the scratch vector            *)

\* test that also takes the left element when the two are equivalent:
\* !compare(a[i2], a[i1])
MergeTakesLeftOnTie(c, x, y) == ~Compare(c, y, x)
\* the test of the first loop with the arguments exchanged
MergeTakesLeftSwapped(c, x, y) == Compare(c, y, x)

\* if (compareFunction(a[i1], a[i2])): the left element is taken
MergeTakesLeft(c, x, y) == Compare(c, x, y)

\* The three while loops, with m1, m2, ti for i1, i2, tempi.  Once the
\* condition of the first loop fails it stays false, so the loops run in
\* the order of the source.
RECURSIVE MergeLoops(_, _, _, _, _, _, _, _, _)
MergeLoops(arr, tmp, ao, to, size, c, m1, m2, ti) ==
    IF m1 < size \div 2 /\ m2 < size
    THEN IF MergeTakesLeft(c, arr[ao + m1], arr[ao + m2])
         THEN MergeLoops(arr, [tmp EXCEPT ![to + ti] = arr[ao + m1]],
                         ao, to, size, c, m1 + 1, m2, ti + 1)
         ELSE MergeLoops(arr, [tmp EXCEPT ![to + ti] = arr[ao + m2]],
                         ao, to, size, c, m1, m2 + 1, ti + 1)
    ELSE IF m1 < size \div 2
    THEN MergeLoops(arr, [tmp EXCEPT ![to + ti] = arr[ao + m1]],
                    ao, to, size, c, m1 + 1, m2, ti + 1)
    ELSE IF m2 < size
    THEN MergeLoops(arr, [tmp EXCEPT ![to + ti] = arr[ao + m2]],
                    ao, to, size, c, m1, m2 + 1, ti + 1)
    ELSE tmp

\* temp after the loops: i1 = 0, i2 = size / 2, tempi = 0
MergeTemp(arr, tmp, ao, to, size, c) ==
    MergeLoops(arr, tmp, ao, to, size, c, 0, size \div 2, 0)

\* copy-back that also stores the element into the slot after it: the
\* iteration of that slot repairs it only if it runs later
CopyElemClobber(arr, tmp, ao, to, i) ==
    [k \in DOMAIN arr |->
        IF k = ao + i \/ k = ao + i + 1 THEN tmp[to + i] ELSE arr[k]]

\* a[i] = temp[i]
CopyElem(arr, tmp, ao, to, i) == [arr EXCEPT ![ao + i] = tmp[to + i]]

\* policy of the copy-back parallelFor(kZeroSize, size, ...), which passes
\* none: the default argument of the declaration
kDefaultPolicy == "kParallel"

----------------------------------------------------------------------------
(* Activations of parallelMergeSort(a, size, temp, numThreads, cmp)        *)

Frame(ao, to, size, nt) ==
    [aoff |-> ao, toff |-> to, size |-> size, nt |-> nt, pc |-> "enter",
     pool |-> <<>>]

\* numThreads / 2 and numThreads - numThreads / 2
LeftBudget(nt) == nt \div 2

\* right budget equal to the left one: numThreads / 2
RightBudgetHalf(nt) == nt \div 2
RightBudget(nt) == nt - nt \div 2

\* arguments of the two launchRange calls
LeftJob(f) ==
    [aoff |-> f.aoff, toff |-> f.toff, size |-> f.size \div 2,
     nt |-> LeftBudget(f.nt)]
\* right job whose length is size / 2, as the left one's
RightJobShort(f) ==
    [aoff |-> f.aoff + f.size \div 2, toff |-> f.toff + f.size \div 2,
     size |-> f.size \div 2, nt |-> RightBudget(f.nt)]
\* right job that is given the scratch range of the left one: temp
\* instead of temp + size / 2
RightJobSharedTemp(f) ==
    [aoff |-> f.aoff + f.size \div 2, toff |-> f.toff,
     size |-> f.size - f.size \div 2, nt |-> RightBudget(f.nt)]
RightJob(f) ==
    [aoff |-> f.aoff + f.size \div 2, toff |-> f.toff + f.size \div 2,
     size |-> f.size - f.size \div 2, nt |-> RightBudget(f.nt)]

Top == stack[Len(stack)]
SetTop(f) == [stack EXCEPT ![Len(stack)] = f]

\* Offsets that std::sort(a, a + size, ...) may read or write: those of
\* the range and the one at its end
StdSortTouchesSentinel(off, size) == off .. (off + size)
\* Offsets that std::sort(a, a + size, ...) may read or write: the range
\* [a, a + size) it is given
StdSortTouches(off, size) == off .. (off + size - 1)

\* Offsets the three loops of merge read (of a) and write (of temp): each
\* of a[0 .. size-1] is read once, each of temp[0 .. size-1] written once
MergeTouches(off, size) == off .. (off + size - 1)

\* The accesses of one activation: la/lt by the task of its left half
\* (array, scratch), ra/rt by the task of its right half, ma/mt by its own
\* std::sort or merge.
NoAccess ==
    [la |-> {}, lt |-> {}, ra |-> {}, rt |-> {}, ma |-> {}, mt |-> {}]

\* nothing has run: no activation, no std::sort, no element touched
NoSortLog ==
    [entered |-> 0, leaves |-> 0, a |-> {}, t |-> {}, acc |-> <<>>]

\* an activation of parallelMergeSort begins
LogEnter(l) ==
    [l EXCEPT !.entered = @ + 1, !.acc = Append(@, NoAccess)]

\* the running activation touches offsets as of a and ts of temp
LogTouch(l, as, ts) ==
    LET n == Len(l.acc)
    IN  [l EXCEPT !.a = @ \cup as, !.t = @ \cup ts,
                  !.acc[n].ma = @ \cup as, !.acc[n].mt = @ \cup ts]

\* the running activation calls std::sort on its range
LogStdSort(l, off, size) ==
    [LogTouch(l, StdSortTouches(off, size), {}) EXCEPT !.leaves = @ + 1]

\* the running activation returns: all it touched was touched by the task
\* of its parent that ran it, the left one while the parent is about to
\* launch the right one
LogReturn(l, st) ==
    LET n == Len(l.acc)
        c == l.acc[n]
        as == c.la \cup c.ra \cup c.ma
        ts == c.lt \cup c.rt \cup c.mt
        below == SubSeq(l.acc, 1, n - 1)
    IN  IF n = 1 THEN [l EXCEPT !.acc = <<>>]
        ELSE IF st[n - 1].pc = "spawnR"
        THEN [l EXCEPT !.acc = [below EXCEPT ![n - 1].la = @ \cup as,
                                             ![n - 1].lt = @ \cup ts]]
        ELSE [l EXCEPT !.acc = [below EXCEPT ![n - 1].ra = @ \cup as,
                                             ![n - 1].rt = @ \cup ts]]

\* the lambda of the copy-back in merge: a[i] = temp[i]
CopyBackFunc(i) ==
    /\ a' = CopyElem(a, temp, Top.aoff, Top.toff, i)
    /\ sortLog' = LogTouch(sortLog, {Top.aoff + i}, {Top.toff + i})
    /\ UNCHANGED <<written, count, out>>

----------------------------------------------------------------------------
(* Arguments drawn by Init                                                 *)

Elems == {10, 11, 20}

RECURSIVE SeqsUpTo(_, _)
SeqsUpTo(S, n) ==
    IF n = 0 THEN {<<>>}
    ELSE LET shorter == SeqsUpTo(S, n - 1)
         IN  shorter \cup {Append(s, x) : s \in shorter, x \in S}

\* inputs of parallelSort: every array up to MaxLen, and the array of the
\* scenario parallelSort([5,3,1,4,2])
SortArrays ==
    {ArrayOf(s) : s \in SeqsUpTo(Elems, MaxLen)}
        \cup {ArrayOf(<<50, 30, 10, 40, 20>>)}

\* [begin, end) of parallelSort within an array of length n: the whole
\* array, the array without its first element, and end before begin
SortRanges(n) == {<<0, n>>, <<Min(1, n), n>>, <<n, 0>>}

FillArrays == {[i \in 0 .. (n - 1) |-> 10] : n \in 0 .. MaxLen}

\* start and end of the index loops; the scenarios parallelFor(0, 10, ...)
\* and parallelReduce(0, 100, ...) are drawn too, and [0, 10) is partitioned
\* as well
IndexPairs == (0 .. MaxIdx) \X (0 .. MaxIdx)
ForPairs == IndexPairs \cup {<<0, 10>>}
RangePairs == IndexPairs \cup {<<0, 10>>}
ReducePairs == RangePairs \cup {<<0, 100>>}

Identities == {0, 1}

InitState ==
    /\ pc = "entry"
    /\ pf = PfIdle
    /\ count = EmptyArr
    /\ out = EmptyArr
    /\ written = {}
    /\ numThreads = 0
    /\ slice = 0
    /\ i1 = 0
    /\ i2 = 0
    /\ tid = 0
    /\ pool = <<>>
    /\ calls = <<>>
    /\ results = EmptyArr
    /\ finalResult = 0
    /\ gi = 0
    /\ ret = "none"
    /\ temp = EmptyArr
    /\ stack = <<>>
    /\ reordered = FALSE
    /\ sortLog = NoSortLog
    /\ a = a0

NoArray == a0 = EmptyArr /\ fillValue = 0
NoReduce == identity = 0 /\ reduceFn = "none" /\ mapFn = "none"
NoSort == cmp = "none" /\ sortImpl = "none"

InitFor ==
    /\ op = "for"
    /\ \E p \in ForPairs : start = p[1] /\ end = p[2]
    /\ NoArray /\ NoReduce /\ NoSort

InitFill ==
    /\ op = "fill"
    /\ a0 \in FillArrays
    /\ start \in 0 .. ArrLen(a0)
    /\ end \in 0 .. ArrLen(a0)
    /\ fillValue = 7   \* not an element of any array drawn
    /\ NoReduce /\ NoSort

InitRangeFor ==
    /\ op = "rangeFor"
    /\ \E p \in RangePairs : start = p[1] /\ end = p[2]
    /\ NoArray /\ NoReduce /\ NoSort

InitReduce ==
    /\ op = "reduce"
    /\ \E p \in ReducePairs : start = p[1] /\ end = p[2]
    /\ identity \in Identities
    /\ reduceFn \in ReduceFns
    /\ mapFn \in MapFns
    /\ NoArray /\ NoSort

InitSort ==
    /\ op = "sort"
    /\ a0 \in SortArrays
    /\ \E r \in SortRanges(ArrLen(a0)) : start = r[1] /\ end = r[2]
    /\ cmp \in CompareFns
    /\ sortImpl \in SortImpls
    /\ fillValue = 0
    /\ NoReduce

Init ==
    /\ policy \in Policies
    /\ hint \in Hints
    /\ InitFor \/ InitFill \/ InitRangeFor \/ InitReduce \/ InitSort
    /\ InitState

----------------------------------------------------------------------------
(* parallelFor(start, end, func, policy), per index                        *)

\* the func the running parallelFor was called with
PfFunc(i) ==
    CASE op = "for" -> UserFunc(i)
      [] op = "fill" -> FillFunc(i)
      [] op = "sort" -> CopyBackFunc(i)

\* if (start > end) return; otherwise the loop of the policy begins
ForEntry ==
    /\ op = "for" /\ pc = "entry"
    /\ pf' = ParallelForCall(start, end, policy)
    /\ pc' = IF pf'.mode = "idle" THEN "done" ELSE "loop"
    /\ UNCHANGED <<argVars, reordered, sortLog, forVars, memVars, rangeVars,
                   temp, stack>>

\* one iteration of the serial loop: func(i); ++i
ForSerialIter ==
    /\ pf.mode = "serial" /\ pf.i < pf.end
    /\ PfFunc(pf.i)
    /\ pf' = [pf EXCEPT !.i = @ + 1]
    /\ UNCHANGED <<argVars, reordered, pc, rangeVars, temp, stack>>

\* one iteration of the omp parallel for loop: the iterations are shared
\* out among the threads, so any iteration not yet run may be the next
ForOmpIter ==
    /\ pf.mode = "omp"
    /\ \E i \in pf.pending :
          /\ PfFunc(i)
          /\ pf' = [pf EXCEPT !.pending = @ \ {i}]
          /\ reordered' = (reordered \/ \E j \in pf.pending : j < i)
    /\ UNCHANGED <<argVars, pc, rangeVars, temp, stack>>

\* the loop is over and parallelFor returns to its caller: the entry
\* point is done, or merge returns to parallelMergeSort, which returns
ForReturn ==
    /\ pf.mode # "idle" /\ PfFinished(pf)
    /\ pf' = PfIdle
    /\ IF op = "sort"
       THEN /\ stack' = SetTop([Top EXCEPT !.pc = "ret"])
            /\ pc' = pc
       ELSE /\ pc' = "done"
            /\ stack' = stack
    /\ UNCHANGED <<argVars, reordered, sortLog, forVars, memVars, rangeVars,
                   temp>>

----------------------------------------------------------------------------
(* parallelFill(begin, end, value, policy): begin and end are offsets      *)
(* start and end into the array a                                          *)

FillEntry ==
    /\ op = "fill" /\ pc = "entry"
    /\ LET diff == end - start
       IN  IF diff <= 0
           THEN pc' = "done" /\ pf' = pf
           ELSE pc' = "loop" /\ pf' = ParallelForCall(0, diff, policy)
    /\ UNCHANGED <<argVars, reordered, sortLog, forVars, memVars, rangeVars,
                   temp, stack>>

----------------------------------------------------------------------------
(* parallelRangeFor(start, end, func, policy)                              *)

RangeForEntry ==
    /\ op = "rangeFor" /\ pc = "entry"
    /\ IF start > end
       THEN /\ pc' = "done"
            /\ UNCHANGED <<numThreads, slice, i1, i2>>
       ELSE /\ numThreads' = ResolveNumThreads(policy, hint)
            /\ slice' = SliceSize(end - start + 1, numThreads')
            /\ i1' = start
            /\ i2' = NextEnd(start, slice', end)
            /\ pc' = "launch"
    /\ UNCHANGED <<argVars, reordered, sortLog, pf, forVars, memVars, tid,
                   pool, calls, results, finalResult, gi, ret, temp, stack>>

\* body of the for loop: async([=]() { func(i1, i2); })
RangeForLaunch ==
    /\ op = "rangeFor" /\ pc = "launch"
    /\ tid + 1 < numThreads /\ i1 < end
    /\ LET f == async([k1 |-> i1, k2 |-> i2])
       IN  /\ pool' = Append(pool, Completed(f))
           /\ calls' = IF f.state = "run" THEN Append(calls, <<i1, i2>>)
                       ELSE calls
    /\ i1' = i2
    /\ i2' = NextEnd(i2, slice, end)
    /\ tid' = tid + 1
    /\ UNCHANGED <<argVars, reordered, sortLog, pc, pf, forVars, memVars,
                   numThreads, slice, results, finalResult, gi, ret, temp,
                   stack>>

\* the loop is left: if (i1 < end) async([=]() { func(i1, end); })
RangeForLaunchLast ==
    /\ op = "rangeFor" /\ pc = "launch"
    /\ ~(tid + 1 < numThreads /\ i1 < end)
    /\ IF i1 < end
       THEN LET f == async([k1 |-> i1, k2 |-> end])
            IN  /\ pool' = Append(pool, Completed(f))
                /\ calls' = IF f.state = "run" THEN Append(calls, <<i1, end>>)
                            ELSE calls
       ELSE UNCHANGED <<pool, calls>>
    /\ pc' = "wait"
    /\ UNCHANGED <<argVars, reordered, sortLog, pf, forVars, memVars,
                   numThreads, slice, i1, i2, tid, results, finalResult, gi,
                   ret, temp, stack>>

\* the wait loop finishes and parallelRangeFor returns
RangeForJoin ==
    /\ op = "rangeFor" /\ pc = "wait"
    /\ Waited(pool)
    /\ pc' = "done"
    /\ UNCHANGED <<argVars, reordered, sortLog, pf, forVars, memVars,
                   rangeVars, temp, stack>>

----------------------------------------------------------------------------
(* parallelReduce(start, end, identity, func, reduce, policy)              *)

\* launchRange that stores every partial into the first slot
LaunchRangeFirstSlot(res, k1, k2, t) ==
    [res EXCEPT ![0] = Map(mapFn, reduceFn, k1, k2, identity)]

\* launchRange that hands func the range with its end included
LaunchRangeInclusive(res, k1, k2, t) ==
    [res EXCEPT ![t] = Map(mapFn, reduceFn, k1, k2 + 1, identity)]

\* results after launchRange(k1, k2, t): results[tid] = func(k1, k2, identity)
LaunchRange(res, k1, k2, t) ==
    [res EXCEPT ![t] = Map(mapFn, reduceFn, k1, k2, identity)]

ReduceEntry ==
    /\ op = "reduce" /\ pc = "entry"
    /\ IF start > end
       THEN /\ ret' = identity
            /\ pc' = "done"
            /\ UNCHANGED <<numThreads, slice, i1, i2, results>>
       ELSE /\ numThreads' = ResolveNumThreads(policy, hint)
            /\ slice' = SliceSize(end - start + 1, numThreads')
            /\ results' = [k \in 0 .. (numThreads' - 1) |-> identity]
            /\ i1' = start
            /\ i2' = NextEnd(start, slice', end)
            /\ pc' = "launch"
            /\ ret' = ret
    /\ UNCHANGED <<argVars, reordered, sortLog, pf, forVars, memVars, tid,
                   pool, calls, finalResult, gi, temp, stack>>

\* body of the for loop: async([=]() { launchRange(i1, i2, tid); })
ReduceLaunch ==
    /\ op = "reduce" /\ pc = "launch"
    /\ tid + 1 < numThreads /\ i1 < end
    /\ LET f == async([k1 |-> i1, k2 |-> i2, tid |-> tid])
       IN  /\ pool' = Append(pool, Completed(f))
           /\ calls' = IF f.state = "run" THEN Append(calls, <<i1, i2>>)
                       ELSE calls
           /\ results' = IF f.state = "run"
                         THEN LaunchRange(results, i1, i2, tid)
                         ELSE results
    /\ i1' = i2
    /\ i2' = NextEnd(i2, slice, end)
    /\ tid' = tid + 1
    /\ UNCHANGED <<argVars, reordered, sortLog, pc, pf, forVars, memVars,
                   numThreads, slice, finalResult, gi, ret, temp, stack>>

\* the loop is left: if (i1 < end) async([=]() { launchRange(i1, end, tid); })
ReduceLaunchLast ==
    /\ op = "reduce" /\ pc = "launch"
    /\ ~(tid + 1 < numThreads /\ i1 < end)
    /\ IF i1 < end
       THEN LET f == async([k1 |-> i1, k2 |-> end, tid |-> tid])
            IN  /\ pool' = Append(pool, Completed(f))
                /\ calls' = IF f.state = "run" THEN Append(calls, <<i1, end>>)
                            ELSE calls
                /\ results' = IF f.state = "run"
                              THEN LaunchRange(results, i1, end, tid)
                              ELSE results
       ELSE UNCHANGED <<pool, calls, results>>
    /\ pc' = "wait"
    /\ UNCHANGED <<argVars, reordered, sortLog, pf, forVars, memVars,
                   numThreads, slice, i1, i2, tid, finalResult, gi, ret, temp,
                   stack>>

\* the wait loop finishes: Value finalResult = identity
ReduceJoin ==
    /\ op = "reduce" /\ pc = "wait"
    /\ Waited(pool)
    /\ finalResult' = identity
    /\ gi' = 0
    /\ pc' = "gather"
    /\ UNCHANGED <<argVars, reordered, sortLog, pf, forVars, memVars,
                   numThreads, slice, i1, i2, tid, pool, calls, results, ret,
                   temp, stack>>

\* gather loop that walks results from its last slot to its first
ReduceGatherDescending ==
    /\ op = "reduce" /\ pc = "gather"
    /\ gi < numThreads
    /\ finalResult' = Reduce(reduceFn, results[numThreads - 1 - gi],
                             finalResult)
    /\ gi' = gi + 1
    /\ UNCHANGED <<argVars, reordered, sortLog, pc, pf, forVars, memVars,
                   numThreads, slice, i1, i2, tid, pool, calls, results, ret,
                   temp, stack>>

\* for (const Value& val : results) finalResult = reduce(val, finalResult)
ReduceGather ==
    /\ op = "reduce" /\ pc = "gather"
    /\ gi < numThreads
    /\ finalResult' = Reduce(reduceFn, results[gi], finalResult)
    /\ gi' = gi + 1
    /\ UNCHANGED <<argVars, reordered, sortLog, pc, pf, forVars, memVars,
                   numThreads, slice, i1, i2, tid, pool, calls, results, ret,
                   temp, stack>>

\* return finalResult
ReduceReturn ==
    /\ op = "reduce" /\ pc = "gather"
    /\ ~(gi < numThreads)
    /\ ret' = finalResult
    /\ pc' = "done"
    /\ UNCHANGED <<argVars, reordered, sortLog, pf, forVars, memVars,
                   numThreads, slice, i1, i2, tid, pool, calls, results,
                   finalResult, gi, temp, stack>>

----------------------------------------------------------------------------
(* parallelSort(begin, end, compareFunction, policy): begin and end are    *)
(* the offsets start and end into the array a                              *)

\* if (end < begin) return; else the scratch vector temp(size) is value-
\* initialised and parallelMergeSort(begin, size, temp.begin(), numThreads,
\* compareFunction) is called
SortEntry ==
    /\ op = "sort" /\ pc = "entry"
    /\ IF end < start
       THEN /\ pc' = "done"
            /\ UNCHANGED <<temp, numThreads, stack, sortLog>>
       ELSE /\ temp' = [k \in 0 .. (end - start - 1) |-> 0]
            /\ numThreads' = ResolveNumThreads(policy, hint)
            /\ stack' = <<Frame(start, 0, end - start, numThreads')>>
            /\ sortLog' = LogEnter(sortLog)
            /\ pc' = "msort"
    /\ UNCHANGED <<argVars, reordered, pf, forVars, memVars, slice,
                   i1, i2, tid, pool, calls, results, finalResult, gi, ret>>

\* if (numThreads == 1) std::sort(a, a + size, compareFunction);
MSortSequential ==
    /\ op = "sort" /\ pc = "msort" /\ pf.mode = "idle"
    /\ Top.pc = "enter" /\ Top.nt = 1
    /\ a' = StdSort(a, Top.aoff, Top.size, cmp, sortImpl)
    /\ stack' = SetTop([Top EXCEPT !.pc = "ret"])
    /\ sortLog' = LogStdSort(sortLog, Top.aoff, Top.size)
    /\ UNCHANGED <<argVars, reordered, pc, pf, forVars, written,
                   rangeVars, temp>>

\* split that is skipped for a range of at most one element, which then
\* returns as it is
MSortSplitUnlessSmall ==
    /\ op = "sort" /\ pc = "msort" /\ pf.mode = "idle"
    /\ Top.pc = "enter" /\ Top.nt # 1
    /\ stack' = SetTop([Top EXCEPT !.pc = IF Top.nt > 1 /\ Top.size > 1
                                          THEN "spawnL" ELSE "ret"])
    /\ UNCHANGED <<argVars, reordered, sortLog, pc, pf, forVars, memVars,
                   rangeVars, temp>>

\* else if (numThreads > 1): the pool is created; with numThreads == 0
\* neither branch is taken and the function returns
MSortSplit ==
    /\ op = "sort" /\ pc = "msort" /\ pf.mode = "idle"
    /\ Top.pc = "enter" /\ Top.nt # 1
    /\ stack' = SetTop([Top EXCEPT !.pc = IF Top.nt > 1 THEN "spawnL"
                                          ELSE "ret"])
    /\ UNCHANGED <<argVars, reordered, sortLog, pc, pf, forVars, memVars,
                   rangeVars, temp>>

\* The parent at position next with the future of job in its pool, and
\* above it the activation of the job, which schedule runs in the caller.
Spawned(job, next) ==
    LET f == async(job)
        parent == [Top EXCEPT !.pc = next, !.pool = Append(@, f)]
    IN  IF f.state = "run"
        THEN Append(SetTop(parent), Frame(job.aoff, job.toff, job.size, job.nt))
        ELSE SetTop(parent)

\* async([=]() { launchRange(a, size / 2, temp, numThreads / 2); })
MSortSpawnLeft ==
    /\ op = "sort" /\ pc = "msort" /\ pf.mode = "idle"
    /\ Top.pc = "spawnL"
    /\ stack' = Spawned(LeftJob(Top), "spawnR")
    /\ sortLog' = IF Len(stack') > Len(stack) THEN LogEnter(sortLog)
                  ELSE sortLog
    /\ UNCHANGED <<argVars, reordered, pc, pf, forVars, memVars,
                   rangeVars, temp>>

\* async([=]() { launchRange(a + size / 2, size - size / 2,
\*                           temp + size / 2, numThreads - numThreads / 2); })
MSortSpawnRight ==
    /\ op = "sort" /\ pc = "msort" /\ pf.mode = "idle"
    /\ Top.pc = "spawnR"
    /\ stack' = Spawned(RightJob(Top), "join")
    /\ sortLog' = IF Len(stack') > Len(stack) THEN LogEnter(sortLog)
                  ELSE sortLog
    /\ UNCHANGED <<argVars, reordered, pc, pf, forVars, memVars,
                   rangeVars, temp>>

\* the stack below the returning activation; the task of the caller that
\* ran it has returned, so its future (the last of the pool) is ready
Returned(st) ==
    LET below == SubSeq(st, 1, Len(st) - 1)
        parent == below[Len(below)]
        k == Len(parent.pool)
    IN  [below EXCEPT ![Len(below)] =
            [parent EXCEPT !.pool = [@ EXCEPT ![k] = Completed(@)]]]

\* parallelMergeSort returns: to the task of its parent, or to parallelSort
MSortReturn ==
    /\ op = "sort" /\ pc = "msort" /\ pf.mode = "idle"
    /\ Top.pc = "ret"
    /\ IF Len(stack) > 1
       THEN stack' = Returned(stack) /\ pc' = pc
       ELSE stack' = <<>> /\ pc' = "done"
    /\ sortLog' = LogReturn(sortLog, stack)
    /\ UNCHANGED <<argVars, reordered, pf, forVars, memVars,
                   rangeVars, temp>>

\* for (auto& f : pool) { if (f.valid()) { f.wait(); } }
MSortJoin ==
    /\ op = "sort" /\ pc = "msort" /\ pf.mode = "idle"
    /\ Top.pc = "join"
    /\ Waited(Top.pool)
    /\ stack' = SetTop([Top EXCEPT !.pc = "merge"])
    /\ UNCHANGED <<argVars, reordered, sortLog, pc, pf, forVars, memVars,
                   rangeVars, temp>>

\* merge(a, size, temp, compareFunction): the three loops fill temp, then
\* parallelFor(kZeroSize, size, ...) is called for the copy-back
MSortMerge ==
    /\ op = "sort" /\ pc = "msort" /\ pf.mode = "idle"
    /\ Top.pc = "merge"
    /\ temp' = MergeTemp(a, temp, Top.aoff, Top.toff, Top.size, cmp)
    /\ pf' = ParallelForCall(0, Top.size, kDefaultPolicy)
    /\ stack' = SetTop([Top EXCEPT !.pc = "copy"])
    /\ sortLog' = LogTouch(sortLog, MergeTouches(Top.aoff, Top.size),
                           MergeTouches(Top.toff, Top.size))
    /\ UNCHANGED <<argVars, reordered, pc, forVars, memVars,
                   rangeVars>>

----------------------------------------------------------------------------

Next ==
    \/ ForEntry
    \/ ForSerialIter
    \/ ForOmpIter
    \/ ForReturn
    \/ FillEntry
    \/ RangeForEntry
    \/ RangeForLaunch
    \/ RangeForLaunchLast
    \/ RangeForJoin
    \/ ReduceEntry
    \/ ReduceLaunch
    \/ ReduceLaunchLast
    \/ ReduceJoin
    \/ ReduceGather
    \/ ReduceReturn
    \/ SortEntry
    \/ MSortSequential
    \/ MSortSplit
    \/ MSortSpawnLeft
    \/ MSortSpawnRight
    \/ MSortReturn
    \/ MSortJoin
    \/ MSortMerge

Spec == Init /\ [][Next]_vars

----------------------------------------------------------------------------
(* parallelMergeSort(a, size, temp, numThreads, compareFunction) called    *)
(* on its own, with any numThreads: internal::parallelMergeSort is a       *)
(* template of the header and takes the budget as an argument              *)

\* the call parallelMergeSort(a + start, end - start, temp, numThreads,
\* cmp) has been made with a value-initialised scratch vector
InitMSort ==
    /\ InitSort /\ start <= end
    /\ policy = "kParallel" /\ hint = 0
    /\ numThreads \in 0 .. MaxHint
    /\ pc = "msort"
    /\ temp = [k \in 0 .. (end - start - 1) |-> 0]
    /\ stack = <<Frame(start, 0, end - start, numThreads)>>
    /\ sortLog = LogEnter(NoSortLog)
    /\ pf = PfIdle
    /\ count = EmptyArr /\ out = EmptyArr
    /\ written = {}
    /\ slice = 0 /\ i1 = 0 /\ i2 = 0 /\ tid = 0
    /\ pool = <<>> /\ calls = <<>>
    /\ results = EmptyArr /\ finalResult = 0 /\ gi = 0 /\ ret = "none"
    /\ reordered = FALSE
    /\ a = a0

NextMSort ==
    \/ MSortSequential
    \/ MSortSplit
    \/ MSortSpawnLeft
    \/ MSortSpawnRight
    \/ MSortReturn
    \/ MSortJoin
    \/ MSortMerge
    \/ ForOmpIter
    \/ ForReturn

SpecMSort == InitMSort /\ [][NextMSort]_vars

----------------------------------------------------------------------------
(* The calls as functions of their arguments                               *)

\* The ranges the partitioning loop and the trailing launch hand to async,
\* from the loop state x1, x2 (i1, i2) and t (tid).
RECURSIVE PartitionFrom(_, _, _, _, _, _)
PartitionFrom(x1, x2, t, nt, sl, e) ==
    IF t + 1 < nt /\ x1 < e
    THEN <<(<<x1, x2>>)>>
            \o PartitionFrom(x2, NextEnd(x2, sl, e), t + 1, nt, sl, e)
    ELSE IF x1 < e THEN <<(<<x1, e>>)>> ELSE <<>>

Partition(s, e, nt) ==
    LET sl == SliceSize(e - s + 1, nt)
    IN  PartitionFrom(s, NextEnd(s, sl, e), 0, nt, sl, e)

\* the gather loop from slot g on: finalResult = reduce(val, finalResult)
RECURSIVE GatherFrom(_, _, _, _, _)
GatherFrom(fn, res, g, nt, acc) ==
    IF g < nt THEN GatherFrom(fn, res, g + 1, nt, Reduce(fn, res[g], acc))
    ELSE acc

\* value parallelReduce returns
ReduceValue(s, e, id, m, fn, nt) ==
    IF s > e THEN id
    ELSE LET parts == Partition(s, e, nt)
             res == [k \in 0 .. (nt - 1) |->
                        IF k < Len(parts)
                        THEN Map(m, fn, parts[k + 1][1], parts[k + 1][2], id)
                        ELSE id]
         IN  GatherFrom(fn, res, 0, nt, id)

\* the array after parallelMergeSort(a + ao, size, temp, nt, c): the
\* sorted range, or both halves sorted one after the other, merged into a
\* scratch range and copied back
RECURSIVE MergeSorted(_, _, _, _, _, _)
MergeSorted(arr, ao, size, nt, c, impl) ==
    IF nt = 1 THEN StdSort(arr, ao, size, c, impl)
    ELSE IF nt > 1
    THEN LET left == MergeSorted(arr, ao, size \div 2, LeftBudget(nt), c, impl)
             both == MergeSorted(left, ao + size \div 2, size - size \div 2,
                                 RightBudget(nt), c, impl)
             tmp == MergeTemp(both, [k \in 0 .. (size - 1) |-> 0], ao, 0,
                              size, c)
         IN  [k \in DOMAIN arr |->
                 IF ao <= k /\ k < ao + size THEN tmp[k - ao] ELSE both[k]]
    ELSE arr

----------------------------------------------------------------------------
(* Properties                                                              *)

SortDone == op = "sort" /\ pc = "done" /\ start <= end

\* no adjacent pair x, y of arr[lo .. hi-1] with compare(y, x)
NonDecreasing(arr, lo, hi, c) ==
    \A k \in lo .. (hi - 2) : ~Compare(c, arr[k + 1], arr[k])

Occurrences(arr, lo, hi, x) == Cardinality({k \in lo .. (hi - 1) : arr[k] = x})

\* x[lo .. hi-1] is a rearrangement of y[lo .. hi-1]
PermutationOf(x, y, lo, hi) ==
    /\ DOMAIN x = DOMAIN y
    /\ \A k \in lo .. (hi - 1) :
          Occurrences(x, lo, hi, x[k]) = Occurrences(y, lo, hi, x[k])

\* C1: when parallelSort returns, [begin, end) is a permutation of its
\* initial contents and is non-decreasing under the comparator, for every
\* input, comparator, policy and worker count.
C1_SortedPermutation ==
    SortDone =>
        /\ PermutationOf(a, a0, start, end)
        /\ NonDecreasing(a, start, end, cmp)

\* parallelSort([5,3,1,4,2], ascending, Parallel, workers = 4) has
\* returned [1,2,3,4,5]
C1_Witness ==
    /\ SortDone /\ policy = "kParallel" /\ hint = 4 /\ cmp = "less"
    /\ a0 = ArrayOf(<<50, 30, 10, 40, 20>>)
    /\ a = ArrayOf(<<10, 20, 30, 40, 50>>)

\* what the Serial policy leaves in the array: one std::sort of [begin, end)
SerialSortResult == StdSort(a0, start, end - start, cmp, sortImpl)

\* C2 as stated: the final array is, for every input, the array the Serial
\* policy produces, also when equivalent elements are distinguishable.
C2_SerialParallelIdentical == SortDone => a = SerialSortResult

\* any two elements of [begin, end) that are equivalent under the
\* comparator are equal
NoDistinctEquivalents ==
    \A j, k \in start .. (end - 1) :
        (~Compare(cmp, a0[j], a0[k]) /\ ~Compare(cmp, a0[k], a0[j]))
            => a0[j] = a0[k]

\* C2 amended: when elements that are equivalent under the comparator are
\* indistinguishable, the Parallel policy ends with the array the Serial
\* policy ends with, for every worker count.
C2_IdenticalWithoutDistinctEquivalents ==
    (SortDone /\ NoDistinctEquivalents) => a = SerialSortResult

\* a Parallel sort with more than one worker of an unsorted array that
\* holds a duplicate has returned
C2_Witness ==
    /\ SortDone /\ NoDistinctEquivalents
    /\ policy = "kParallel" /\ numThreads = 3
    /\ a0 = ArrayOf(<<20, 10, 10>>) /\ start = 0 /\ end = 3

ForDone == op = "for" /\ pc = "done"

\* C3: parallelFor invokes func exactly once for each index of
\* [start, end) and for no other index, in whatever order the iterations
\* run, and never when start > end; at no time has an index been visited
\* twice.  The serial scenario parallelFor(0, 10, i -> out[i] = i*i) ends
\* with the ten squares.
C3_EachIndexOnce ==
    /\ op = "for" =>
          \A i \in DOMAIN count : count[i] = 1 /\ start <= i /\ i < end
    /\ (ForDone /\ start <= end) => DOMAIN count = start .. (end - 1)
    /\ (ForDone /\ start > end) => DOMAIN count = {}
    /\ (ForDone /\ start = 0 /\ end = 10) => out = [i \in 0 .. 9 |-> i * i]

\* a parallel loop over three indices has returned after running its
\* iterations out of ascending order
C3_Witness ==
    /\ ForDone /\ policy = "kParallel" /\ reordered
    /\ start = 1 /\ end = 4 /\ DOMAIN count = {1, 2, 3}

RangeOp == op \in {"rangeFor", "reduce"}
\* the partitioning loop and its trailing launch are over
Partitioned == RangeOp /\ pc \in {"wait", "gather", "done"}

\* the k-th range handed to async, as <<begin, end>>
Emitted(k) == <<pool[k].job.k1, pool[k].job.k2>>

\* worker count of the call, from its arguments
WorkerCount ==
    IF policy = "kSerial" THEN 1 ELSE IF hint = 0 THEN 8 ELSE hint

\* C4: the ranges parallelRangeFor and parallelReduce pass to the callable
\* are ordered and contiguous, the first begins at start, the last ends at
\* end, and none is emitted if and only if start >= end.
C4_PartitionCoversDomain ==
    RangeOp =>
        /\ \A k \in 1 .. Len(pool) : Emitted(k)[1] <= Emitted(k)[2]
        /\ \A j, k \in 1 .. Len(pool) :
              j < k => Emitted(j)[2] <= Emitted(k)[1]
        /\ \A k \in 1 .. (Len(pool) - 1) : Emitted(k + 1)[1] = Emitted(k)[2]
        /\ Len(pool) >= 1 => Emitted(1)[1] = start
        /\ calls = [k \in 1 .. Len(pool) |-> Emitted(k)]
        /\ Partitioned =>
              /\ Len(pool) >= 1 => Emitted(Len(pool))[2] = end
              /\ (Len(pool) = 0) <=> (start >= end)
        /\ (pc = "done" /\ start > end) => Len(pool) = 0

\* [0, 5) has been cut for four workers into two slices of 2 and a last
\* range cut at end
C4_Witness ==
    /\ op = "rangeFor" /\ pc = "done" /\ WorkerCount = 4
    /\ start = 0 /\ end = 5
    /\ calls = <<(<<0, 2>>), (<<2, 4>>), (<<4, 5>>)>>

ReduceDone == op = "reduce" /\ pc = "done"

\* C5 as stated: over an empty domain (start >= end) the returned value is
\* the identity argument, whatever identity and reduce are.
C5_EmptyDomainReturnsIdentity ==
    (ReduceDone /\ start >= end) => ret = identity

\* n times acc = reduce(identity, acc)
RECURSIVE FoldIdentity(_, _, _, _)
FoldIdentity(fn, id, n, acc) ==
    IF n = 0 THEN acc ELSE FoldIdentity(fn, id, n - 1, Reduce(fn, id, acc))

\* C5 amended: for start > end the returned value is the identity argument;
\* for start == end it is the identity folded into itself once per worker,
\* acc = reduce(identity, acc) from acc = identity, which is the identity
\* argument whenever reduce(identity, identity) equals identity.
C5_EmptyDomainFoldsIdentity ==
    /\ (ReduceDone /\ start > end) => ret = identity
    /\ (ReduceDone /\ start = end) =>
          /\ ret = FoldIdentity(reduceFn, identity, WorkerCount, identity)
          /\ Reduce(reduceFn, identity, identity) = identity => ret = identity

\* a reduction over [2, 2) with identity 1 and addition has returned more
\* than the identity
C5_Witness ==
    /\ ReduceDone /\ start = 2 /\ end = 2 /\ policy = "kParallel"
    /\ identity = 1 /\ reduceFn = "add" /\ ret = 1 + WorkerCount

\* combine(map(s, s + 1, identity), identity)
OneElementValue ==
    Reduce(reduceFn, Map(mapFn, reduceFn, start, start + 1, identity), identity)

\* C6 as stated: over [s, s+1) the returned value is
\* combine(map(s, s+1, identity), identity) under both policies, for every
\* worker count, identity and combine function.
C6_OneElementSequential ==
    (ReduceDone /\ end = start + 1) => ret = OneElementValue

\* C6 amended: over [s, s+1) the returned value is
\* combine(map(s, s+1, identity), identity) with the identity folded in
\* once for each of the other numThreads - 1 result slots; it is
\* combine(map(s, s+1, identity), identity) itself under the Serial policy
\* and with one worker.
C6_OneElementPadded ==
    (ReduceDone /\ end = start + 1) =>
        /\ ret = FoldIdentity(reduceFn, identity, WorkerCount - 1,
                              OneElementValue)
        /\ WorkerCount = 1 => ret = OneElementValue

\* a one-element reduction with the fallback of 8 workers has returned a
\* value other than combine(map, identity)
C6_Witness ==
    /\ ReduceDone /\ end = start + 1 /\ policy = "kParallel" /\ hint = 0
    /\ identity = 1 /\ ret # OneElementValue

\* values reduce is tried on to classify it
Sample == 0 .. 3

Neutral(fn, id) ==
    \A x \in Sample : Reduce(fn, id, x) = x /\ Reduce(fn, x, id) = x

AssocComm(fn) ==
    \A x, y, z \in Sample :
        /\ Reduce(fn, x, y) = Reduce(fn, y, x)
        /\ Reduce(fn, x, Reduce(fn, y, z)) = Reduce(fn, Reduce(fn, x, y), z)

\* C7: with an identity neutral for an associative and commutative reduce
\* and a func that folds its slice from the seed, the Parallel policy
\* returns the sequential fold over [start, end) for every start <= end
\* and worker count; the sum over [0, 100) is 4950.
C7_ParallelEqualsSequentialFold ==
    /\ ( /\ ReduceDone /\ policy = "kParallel" /\ start <= end
         /\ mapFn = "fold" /\ AssocComm(reduceFn)
         /\ Neutral(reduceFn, identity) )
       => ret = FoldRange(reduceFn, start, end, identity)
    /\ ( /\ ReduceDone /\ policy = "kParallel" /\ start = 0 /\ end = 100
         /\ mapFn = "fold" /\ reduceFn = "add" /\ identity = 0 )
       => ret = 4950

\* the sum over [0, 100) with 4 workers has returned 4950
C7_Witness ==
    /\ ReduceDone /\ policy = "kParallel" /\ hint = 4
    /\ start = 0 /\ end = 100 /\ Len(pool) = 4
    /\ mapFn = "fold" /\ reduceFn = "add" /\ identity = 0 /\ ret = 4950

\* every future of the pool p belongs to a task that has returned
AllRun(p) == \A k \in 1 .. Len(p) : p[k].state = "done"

\* C8: every task created through async has run to completion before the
\* gather loop of parallelReduce or the merge step of parallelMergeSort
\* starts and before the spawning function returns.
C8_TasksJoinedBeforeReturn ==
    /\ (RangeOp /\ pc \in {"gather", "done"}) =>
          /\ AllRun(pool)
          /\ Len(calls) = Len(pool)
    /\ op = "sort" =>
          \A d \in 1 .. Len(stack) :
              stack[d].pc \in {"merge", "copy", "ret"} =>
                  /\ AllRun(stack[d].pool)
                  /\ stack[d].nt > 1 => Len(stack[d].pool) = 2
                  /\ d = Len(stack)

\* a parallelMergeSort that was itself run as a task is about to merge:
\* both of its tasks have returned
C8_Witness ==
    /\ op = "sort" /\ Len(stack) = 2
    /\ Top.pc = "merge" /\ Len(Top.pool) = 2 /\ AllRun(Top.pool)
    /\ Top.size = 2

\* C9: under the Parallel policy the value parallelReduce returns and the
\* array parallelSort leaves are functions of the arguments and the worker
\* count alone: the order in which the iterations and tasks ran does not
\* show in them.
C9_ResultIndependentOfOrder ==
    /\ (ReduceDone /\ policy = "kParallel") =>
          ret = ReduceValue(start, end, identity, mapFn, reduceFn, WorkerCount)
    /\ (SortDone /\ policy = "kParallel") =>
          a = MergeSorted(a0, start, end - start, WorkerCount, cmp, sortImpl)

\* a Parallel sort of three elements whose copy-back ran out of ascending
\* order has returned
C9_Witness ==
    /\ SortDone /\ policy = "kParallel" /\ WorkerCount = 2 /\ reordered
    /\ a0 = ArrayOf(<<20, 11, 10>>) /\ start = 0 /\ end = 3

FillDone == op = "fill" /\ pc = "done"

\* C10: parallelFill with end > begin leaves value in every element of
\* [begin, end) and writes no other element; with end <= begin it writes
\* nothing; under both policies.
C10_FillWritesExactlyRange ==
    /\ op = "fill" =>
          /\ written \subseteq start .. (end - 1)
          /\ \A k \in DOMAIN a : k \notin written => a[k] = a0[k]
          /\ DOMAIN a = DOMAIN a0
    /\ (FillDone /\ end > start) =>
          /\ written = start .. (end - 1)
          /\ \A k \in start .. (end - 1) : a[k] = fillValue
    /\ (FillDone /\ end <= start) => written = {} /\ a = a0

\* a parallel fill of the last two of three elements has returned
C10_Witness ==
    /\ FillDone /\ policy = "kParallel" /\ start = 1 /\ end = 3
    /\ a = ArrayOf(<<10, 7, 7>>)

----------------------------------------------------------------------------
(* Degenerate ranges                                                       *)

\* C11: degenerate ranges are silent no-ops.  With start > end, parallelFor
\* and parallelRangeFor never invoke the callable and create no task, and
\* parallelSort leaves the array as it was and starts no sort (no scratch
\* vector, no activation of parallelMergeSort).  With start = end,
\* parallelRangeFor creates no task and parallelSort reads and writes no
\* element of the array nor of the scratch vector, under either policy.
C11_DegenerateInputsAreNoOps ==
    /\ (op = "for" /\ start > end) =>
          /\ count = EmptyArr /\ out = EmptyArr
          /\ pf.mode = "idle" /\ pool = <<>>
    /\ (op = "rangeFor" /\ start >= end) =>
          /\ calls = <<>> /\ pool = <<>>
    /\ (op = "sort" /\ end < start) =>
          /\ a = a0 /\ temp = EmptyArr
          /\ stack = <<>> /\ sortLog = NoSortLog
    /\ (op = "sort" /\ end = start) =>
          /\ a = a0 /\ sortLog.a = {} /\ sortLog.t = {}

\* parallelSort of an empty range inside a non-empty array has returned
\* after running the whole recursion of a parallel sort
C11_Witness ==
    /\ op = "sort" /\ pc = "done"
    /\ start = end /\ ArrLen(a0) >= 1
    /\ sortLog.entered >= 3 /\ sortLog.leaves >= 2

----------------------------------------------------------------------------
(* Order in which merge writes equivalent elements                         *)

\* neither compare(x, y) nor compare(y, x)
Equivalent(c, x, y) == ~Compare(c, x, y) /\ ~Compare(c, y, x)

\* the array with each element of a[ao .. ao+size-1] replaced by one of the
\* same key that carries its offset in the range (size <= 10)
Positions(arr, ao, size) ==
    [k \in DOMAIN arr |->
        IF ao <= k /\ k < ao + size THEN 10 * Key(arr[k]) + (k - ao)
        ELSE arr[k]]

\* MergeOrder(...)[p] is the offset in a of the element that the loops of
\* merge write to temp[p - 1]
MergeOrder(arr, tmp, ao, to, size, c) ==
    LET merged == MergeTemp(Positions(arr, ao, size), tmp, ao, to, size, c)
    IN  [p \in 1 .. size |-> merged[to + p - 1] % 10]

\* the loops of merge have filled temp and the copy-back has not begun
MergeLoopsDone ==
    /\ op = "sort" /\ stack # <<>>
    /\ Top.pc = "copy" /\ pf.pending = 0 .. (Top.size - 1)

\* order of the offsets written by the merge of the running activation
TopOrder == MergeOrder(a, temp, Top.aoff, Top.toff, Top.size, cmp)

\* temp holds the elements of a in the order TopOrder
TopOrderIsTemp ==
    \A p \in 1 .. Top.size :
        temp[Top.toff + p - 1] = a[Top.aoff + TopOrder[p]]

\* the elements written at p and q > p are equivalent, the one at p from
\* the half `first`, the one at q from the other half
TiePair(p, q, first) ==
    LET half == Top.size \div 2
        x == TopOrder[p]
        y == TopOrder[q]
    IN  /\ p < q
        /\ Equivalent(cmp, a[Top.aoff + x], a[Top.aoff + y])
        /\ IF first = "left" THEN x < half /\ y >= half
           ELSE x >= half /\ y < half

\* C12 as stated: when a[i1] and a[i2] are tied merge writes the left-half
\* element first, so among equivalent elements every element of the left
\* half precedes every element of the right half in the merged output.
C12_TiesFavorLeft ==
    MergeLoopsDone =>
        /\ TopOrderIsTemp
        /\ \A p, q \in 1 .. Top.size : ~TiePair(p, q, "right")

\* C12: when a[i1] and a[i2] are tied merge writes the right-half element
\* first, so among equivalent elements every element of the right half
\* precedes every element of the left half in the merged output.
C12_TiesFavorRight ==
    MergeLoopsDone =>
        /\ TopOrderIsTemp
        /\ \A p, q \in 1 .. Top.size : ~TiePair(p, q, "left")

\* a merge has written an element of the right half before an equivalent,
\* distinguishable element of the left half
C12_Witness ==
    /\ MergeLoopsDone
    /\ \E p, q \in 1 .. Top.size :
          /\ TiePair(p, q, "right")
          /\ a[Top.aoff + TopOrder[p]] # a[Top.aoff + TopOrder[q]]

----------------------------------------------------------------------------
(* Gather loop of parallelReduce                                           *)

\* acc := identity; acc := reduce(res[j], acc) for j = 0, 1, ..., g - 1
RECURSIVE FoldSlots(_, _, _, _)
FoldSlots(fn, res, g, id) ==
    IF g = 0 THEN id
    ELSE Reduce(fn, res[g - 1], FoldSlots(fn, res, g - 1, id))

\* the partial of the k-th range handed to async
Partial(k) ==
    Map(mapFn, reduceFn, Emitted(k)[1], Emitted(k)[2], identity)

----------------------------------------------------------------------------
(* Worker budget of the merge-sort recursion                               *)

\* the activation f has launched its children as the source prescribes:
\* the left one on [0, size/2) with budget floor(n/2), then the right one
\* on [size/2, size) with the rest of the budget
ChildrenOf(f) ==
    /\ Len(f.pool) <= 2
    /\ f.pc \in {"join", "merge", "copy", "ret"} => Len(f.pool) = 2
    /\ f.pc \in {"enter", "spawnL"} => Len(f.pool) = 0
    /\ Len(f.pool) >= 1 =>
          /\ f.pool[1].job.aoff = f.aoff
          /\ f.pool[1].job.size = f.size \div 2
          /\ f.pool[1].job.nt = f.nt \div 2
    /\ Len(f.pool) = 2 =>
          /\ f.pool[2].job.aoff = f.aoff + f.size \div 2
          /\ f.pool[2].job.size = f.size - f.size \div 2
          /\ f.pool[2].job.nt = f.nt - f.nt \div 2
          /\ f.pool[1].job.nt + f.pool[2].job.nt = f.nt

\* some step of parallelSort can be taken: its entry, a step of the
\* copy-back loop, or the step of the running activation, whose wait
\* needs the tasks of its pool to have run
SortCanStep ==
    \/ pc = "entry"
    \/ /\ pc = "msort" /\ stack # <<>>
       /\ \/ pf.mode = "omp" /\ pf.pending # {}
          \/ pf.mode = "serial" /\ pf.i < pf.end
          \/ pf.mode # "idle" /\ PfFinished(pf)
          \/ /\ pf.mode = "idle"
             /\ Top.pc \in {"enter", "spawnL", "spawnR", "merge", "ret"}
          \/ pf.mode = "idle" /\ Top.pc = "join" /\ Waited(Top.pool)

\* C14: in the recursion parallelSort starts with a budget N >= 1, every
\* activation of parallelMergeSort has a budget >= 1; one with budget n > 1
\* launches exactly two children, with budgets floor(n/2) for the left half
\* and n - floor(n/2) for the right half, which sum to n; one with budget 1
\* launches none and runs std::sort.  The recursion terminates: it is never
\* deeper than N, begins at most 2N - 1 activations, cannot stop before
\* parallelSort returns, and when it has returned exactly N activations
\* were leaves that ran std::sort.
C14_WorkerBudget ==
    op = "sort" =>
        /\ \A k \in 1 .. Len(stack) :
              /\ stack[k].nt >= 1
              /\ stack[k].nt = 1 =>
                    /\ stack[k].pool = <<>>
                    /\ stack[k].pc \in {"enter", "ret"}
              /\ stack[k].nt > 1 => ChildrenOf(stack[k])
        /\ Len(stack) <= WorkerCount
        /\ sortLog.entered <= 2 * WorkerCount - 1
        /\ sortLog.leaves <= WorkerCount
        /\ pc = "done" \/ SortCanStep
        /\ pc = "done" /\ start <= end =>
              /\ sortLog.leaves = WorkerCount
              /\ sortLog.entered = 2 * WorkerCount - 1

\* a sort of three elements with the odd budget 3 has returned: the
\* budget was split into 1 and 2, and three leaves ran std::sort
C14_Witness ==
    /\ SortDone /\ WorkerCount = 3 /\ end - start = 3
    /\ sortLog.leaves = 3 /\ sortLog.entered = 5

----------------------------------------------------------------------------
(* Branches of parallelMergeSort                                           *)

\* the range of the activation f is sorted
RangeSorted(f) == NonDecreasing(a, f.aoff, f.aoff + f.size, cmp)

\* the activation f has launched no task and is not in the merge
NoChildNoMerge(f) == f.pool = <<>> /\ f.pc \in {"enter", "ret"}

\* C15 as stated: an activation of parallelMergeSort with numThreads <= 1
\* or with size <= 1 sorts its range with the sequential sort, launches no
\* child task and performs no merge, also for size 0 or 1 with
\* numThreads > 1 and for numThreads = 0.
C15_BaseCaseOnBudgetOrSize ==
    op = "sort" =>
        \A k \in 1 .. Len(stack) :
            (stack[k].nt <= 1 \/ stack[k].size <= 1) =>
                /\ NoChildNoMerge(stack[k])
                /\ stack[k].pc = "ret" => RangeSorted(stack[k])

\* C15: the base case is numThreads = 1 alone.  An activation with
\* numThreads = 1 sorts its range with std::sort, launches no child task
\* and performs no merge, whatever its size.  One with numThreads > 1
\* launches its two children and merges whatever its size, also for size
\* 0 or 1, and leaves its range sorted.  One with numThreads = 0 (only the
\* outermost call can have it) takes neither branch: it launches nothing
\* and sorts nothing, the array stays as it was.
C15_BaseCaseIsOneWorker ==
    op = "sort" =>
        \A k \in 1 .. Len(stack) :
            /\ stack[k].nt = 1 =>
                  /\ NoChildNoMerge(stack[k])
                  /\ stack[k].pc = "ret" => RangeSorted(stack[k])
            /\ stack[k].nt > 1 =>
                  /\ ChildrenOf(stack[k])
                  /\ stack[k].pc = "ret" =>
                        /\ RangeSorted(stack[k])
                        /\ sortLog.acc[k].mt
                              = MergeTouches(stack[k].toff, stack[k].size)
            /\ stack[k].nt = 0 =>
                  /\ k = 1
                  /\ NoChildNoMerge(stack[k])
                  /\ a = a0 /\ sortLog.leaves = 0

\* an activation with a budget above 1 and one element returns after it
\* launched two children and merged
C15_Witness ==
    /\ op = "sort" /\ stack # <<>>
    /\ Top.nt > 1 /\ Top.size = 1 /\ Top.pc = "ret"
    /\ Len(Top.pool) = 2 /\ sortLog.acc[Len(stack)].mt = {Top.toff}

----------------------------------------------------------------------------
(* Index sets touched by the tasks of the parallel sort                    *)

\* the offsets off, off + 1, ..., off + size - 1
Offsets(off, size) == off .. (off + size - 1)

\* the activation at depth k of the stack is the one the newest task of
\* the activation below it was launched with
RunsJobOf(k) ==
    LET parent == stack[k - 1]
        job == parent.pool[Len(parent.pool)].job
    IN  /\ parent.pool # <<>>
        /\ stack[k].aoff = job.aoff /\ stack[k].toff = job.toff
        /\ stack[k].size = job.size /\ stack[k].nt = job.nt

\* accesses of the activation f recorded in c: those of its left task lie
\* in the left halves of its ranges of a and temp, those of its right task
\* in the right halves, its own in its ranges, and its own merge happens
\* only once both tasks have completed
AccessWithin(f, c) ==
    LET half == f.size \div 2
    IN  /\ c.la \subseteq Offsets(f.aoff, half)
        /\ c.lt \subseteq Offsets(f.toff, half)
        /\ c.ra \subseteq Offsets(f.aoff + half, f.size - half)
        /\ c.rt \subseteq Offsets(f.toff + half, f.size - half)
        /\ c.la \cap c.ra = {} /\ c.lt \cap c.rt = {}
        /\ c.ma \subseteq Offsets(f.aoff, f.size)
        /\ c.mt \subseteq Offsets(f.toff, f.size)
        /\ (f.nt > 1 /\ (c.ma # {} \/ c.mt # {} \/ f.pc \in {"merge", "copy"}))
              => (Len(f.pool) = 2 /\ AllRun(f.pool))
        /\ Len(f.pool) = 2 =>
              /\ Offsets(f.pool[1].job.aoff, f.pool[1].job.size)
                    \cap Offsets(f.pool[2].job.aoff, f.pool[2].job.size) = {}
              /\ Offsets(f.pool[1].job.toff, f.pool[1].job.size)
                    \cap Offsets(f.pool[2].job.toff, f.pool[2].job.size) = {}

\* C16: in every state of parallelSort the tasks that may run concurrently
\* touch disjoint offsets of the array and of the scratch vector.  For
\* each activation of parallelMergeSort, the task of its left half and all
\* it runs touch only a[0, size/2) and temp[0, size/2), the task of its
\* right half only a[size/2, size) and temp[size/2, size), and its own
\* merge touches a and temp only after both tasks have completed.
C16_DisjointAccess ==
    op = "sort" =>
        /\ Len(sortLog.acc) = Len(stack)
        /\ \A k \in 1 .. Len(stack) :
              /\ AccessWithin(stack[k], sortLog.acc[k])
              /\ k > 1 => RunsJobOf(k)
        /\ sortLog.a \subseteq Offsets(start, end - start)
        /\ sortLog.t \subseteq Offsets(0, end - start)

\* the outermost activation of a sort with four workers returns: both of
\* its tasks and its merge have touched the array and the scratch vector
C16_Witness ==
    /\ op = "sort" /\ Len(stack) = 1
    /\ Top.pc = "ret" /\ Top.nt = 4 /\ Top.size = 3
    /\ sortLog.acc[1].la = {Top.aoff}
    /\ sortLog.acc[1].lt = {0}
    /\ sortLog.acc[1].ra = {Top.aoff + 1, Top.aoff + 2}
    /\ sortLog.acc[1].rt = {1, 2}
    /\ sortLog.acc[1].mt = {0, 1, 2}

----------------------------------------------------------------------------
(* Number and length of the ranges of the partitioner                      *)

\* max(1, round(n / N)) with n = end - start + 1 and N the worker count;
\* round takes halves away from zero
ExpectedSlice ==
    LET n == end - start + 1
        q == n \div WorkerCount
        r == n % WorkerCount
        rounded == IF 2 * r >= WorkerCount THEN q + 1 ELSE q
    IN  IF rounded < 1 THEN 1 ELSE rounded

\* C17: with n = end - start + 1 and slice = max(1, round(n / N)),
\* parallelRangeFor and parallelReduce emit at most N ranges for every
\* worker count N >= 1; every emitted range is non-empty; every range but
\* the last has length exactly slice; and the last range ends exactly at
\* end, so that when N ranges are emitted the last begins after N - 1
\* slices and takes all that remains.
C17_PartitionCountAndSlice ==
    RangeOp =>
        /\ WorkerCount >= 1
        /\ Len(pool) <= WorkerCount
        /\ \A k \in 1 .. Len(pool) : Emitted(k)[1] < Emitted(k)[2]
        /\ \A k \in 1 .. (Len(pool) - 1) :
              Emitted(k)[2] - Emitted(k)[1] = ExpectedSlice
        /\ pool # <<>> =>
              Emitted(Len(pool))[2] - Emitted(Len(pool))[1] <=
                  (IF Partitioned THEN end - start ELSE ExpectedSlice)
        /\ (Partitioned /\ pool # <<>>) => Emitted(Len(pool))[2] = end
        /\ (Partitioned /\ Len(pool) = WorkerCount) =>
              Emitted(Len(pool))[1] = start + (WorkerCount - 1) * ExpectedSlice

\* [0, 10) over 8 workers: slice is round(11/8) = 1, seven ranges of one
\* index are followed by the last range [7, 10)
C17_Witness ==
    /\ Partitioned /\ start = 0 /\ end = 10 /\ WorkerCount = 8
    /\ Len(pool) = 8 /\ ExpectedSlice = 1
    /\ Emitted(7) = <<6, 7>> /\ Emitted(8) = <<7, 10>>

----------------------------------------------------------------------------
(* Partitioner with one worker                                             *)

\* one worker (Serial policy, or a hint of 1) over a non-empty domain
OneWorker == RangeOp /\ WorkerCount = 1 /\ start < end

\* C18 as stated: with one worker and start < end the callable is invoked
\* once with (start, end) in the caller and no task is launched: async is
\* not called, no future is created or waited on.
C18_SerialFallbackWithoutTask ==
    OneWorker =>
        /\ pool = <<>>
        /\ Partitioned => calls = <<(<<start, end>>)>>

\* C18: with one worker and start < end the whole domain is one range:
\* the callable is invoked exactly once, with (start, end), by the one
\* task that is created through async after the loop; schedule runs that
\* task in the caller before async returns, and its future is put in the
\* pool and waited on.
C18_SerialFallbackIsOneTask ==
    OneWorker =>
        /\ Len(pool) <= 1 /\ Len(calls) = Len(pool)
        /\ pc = "launch" => pool = <<>>
        /\ Partitioned =>
              /\ Len(pool) = 1
              /\ pool[1].valid /\ pool[1].state = "done"
              /\ Emitted(1) = <<start, end>>
              /\ calls = <<(<<start, end>>)>>
        /\ ReduceDone =>
              ret = Reduce(reduceFn,
                           Map(mapFn, reduceFn, start, end, identity),
                           identity)

\* parallelRangeFor(0, 5, func, kSerial) has returned while four threads
\* were available: one future is in the pool, func ran once on [0, 5)
C18_Witness ==
    /\ op = "rangeFor" /\ pc = "done"
    /\ policy = "kSerial" /\ hint = 4 /\ start = 0 /\ end = 5
    /\ Len(pool) = 1 /\ calls = <<(<<0, 5>>)>>

----------------------------------------------------------------------------
(* Slots of the results vector                                             *)

\* results has been created: parallelReduce is past its early return
ResultsLive == op = "reduce" /\ start <= end /\ pc # "entry"

\* C19: results has numThreads slots; the k-th task launched is given
\* tid = k - 1, so the tids are 0, 1, 2, ... in partition order, distinct
\* and below numThreads; each task writes its partial into results[tid] and
\* into no other slot; and every slot that no task was given holds
\* identity, in particular when the gather loop reads it.
C19_ResultSlots ==
    ResultsLive =>
        /\ DOMAIN results = 0 .. (numThreads - 1)
        /\ Len(pool) <= numThreads
        /\ \A k \in 1 .. Len(pool) :
              /\ pool[k].job.tid = k - 1
              /\ pool[k].job.tid < numThreads
              /\ results[pool[k].job.tid] = Partial(k)
        /\ \A j \in Len(pool) .. (numThreads - 1) : results[j] = identity

\* the gather loop of a reduce with four slots and two tasks has read the
\* third slot, which no task was given
C19_Witness ==
    /\ op = "reduce" /\ pc = "gather"
    /\ numThreads = 4 /\ Len(pool) = 2 /\ gi = 3
    /\ results[0] # identity /\ results[1] # identity
    /\ results[2] = identity /\ results[3] = identity

============================================================================
